---- MODULE Spec2Model ----
(***************************************************************************)
(* Model of Robinhood_AI_Trading.py: the analysis-and-decision pipeline    *)
(* (process_trading -> AIStockAdvisorSystem -> ai_stock_analysis ->        *)
(* _record_trading_decision) as a state machine with one action per        *)
(* external call or handler step, and the pure numeric helpers (Python's   *)
(* round on doubles, the pandas RSI column) as operators.                  *)
(*                                                                         *)
(* Prices entering the program are decimal texts with three places; they   *)
(* are carried as integers in thousandths ("milli").  Values produced by   *)
(* round(x, 2) are carried as integers in hundredths ("cents").            *)
(***************************************************************************)
EXTENDS Integers, Sequences, FiniteSets, TLC

VARIABLES
    pc,                  \* position of the one synchronous invocation
    now,                 \* wall clock, one tick per invocation (datetime.now())
    stock,               \* the symbol of the current invocation
    ledger,              \* rows of table ai_stock_analysis_records, in id order
    msgs,                \* what say() was called with in this invocation
    calls,               \* external calls issued in this invocation
    monthly_historicals, \* local of get_chart_data
    daily_historicals,   \* local of get_chart_data
    replies,             \* what the two headline providers answered
    news,                \* local of ai_stock_analysis
    fgi,                 \* local of ai_stock_analysis
    current_price,       \* local of ai_stock_analysis
    content,             \* response.choices[0].message.content
    result,              \* local of ai_stock_analysis (a TradingDecision)
    reason_kr,           \* local of ai_stock_analysis
    ret,                 \* value returned by ai_stock_analysis
    exc,                 \* exception in flight in process_trading
    escaped,             \* an exception left process_trading
    window,              \* parameter of the indicator under evaluation
    closes,              \* df['Close'] of the table under evaluation
    sma,                 \* df['SMA'] once _calculate_bollinger_bands has run
    std,                 \* df['STD'], carried as its square
    avg_gain,            \* local gain of _calculate_rsi
    avg_loss,            \* local loss of _calculate_rsi
    rsi                  \* df['RSI'] once _calculate_rsi has run

pipeline_vars == <<pc, now, stock, ledger, msgs, calls, monthly_historicals,
                   daily_historicals, replies, news, fgi, current_price, content,
                   result, reason_kr, ret, exc, escaped>>

indicator_vars == <<window, closes, sma, std, avg_gain, avg_loss, rsi>>

vars == <<pc, now, stock, ledger, msgs, calls, monthly_historicals,
          daily_historicals, replies, news, fgi, current_price, content,
          result, reason_kr, ret, exc, escaped, window, closes, sma, std,
          avg_gain, avg_loss, rsi>>

(***************************************************************************)
(* Bounds of the model.                                                    *)
(***************************************************************************)
MaxRuns == 2

\* Python's None, and a value that is present.
None == <<>>

Some(v) == <<v>>

\* The one value an optional holds.
Val(o) == o[1]

NoStock == ""

NoException == "none"

Stocks == {"AAPL"}

\* Quotes of latest_price, in thousandths.
SpotQuotes == {100000, 103125}

\* expected_next_day_price values the oracle may answer, in thousandths.
ExpectedQuotes == {102345}

Decisions == {"BUY", "SELL", "HOLD"}

Percentages == {0, 50, 101}

Reasons == {"reason"}

(***************************************************************************)
(* Python's float and round(x, 2).                                         *)
(*                                                                         *)
(* float(text) is the IEEE-754 double nearest to the decimal text; round   *)
(* then rounds the exact binary value of that double to two decimals,      *)
(* ties to even.  For a text with three decimals, n/1000, the outcome is   *)
(* decided by the last digit and, when it is 5, by the side on which the   *)
(* double lies of n/1000.  That side is the remainder of n * 2^k by 1000,  *)
(* where 2^k scales n/1000 into the 53-bit significand range; it is        *)
(* computed modulo 2000, which also yields the parity of the quotient      *)
(* needed by the double's own round-half-even.                             *)
(***************************************************************************)
RECURSIVE BinaryExponent(_)
BinaryExponent(n) ==
    \* floor(log2(n / 1000)) for n >= 1
    IF n >= 2000 THEN 1 + BinaryExponent(n \div 2)
    ELSE IF n < 1000 THEN BinaryExponent(2 * n) - 1
    ELSE 0

RECURSIVE PowMod2(_, _)
PowMod2(k, m) ==
    \* 2^k modulo m
    IF k = 0 THEN 1 % m ELSE (2 * PowMod2(k - 1, m)) % m

FloatSide(n) ==
    \* sign of float("n/1000") - n/1000: -1 below, 0 exact, 1 above
    LET k == 52 - BinaryExponent(n)
        s == ((n % 2000) * PowMod2(k, 2000)) % 2000
        r == s % 1000
        q == s \div 1000
    IN  IF r = 0 THEN 0
        ELSE IF r < 500 THEN -1
        ELSE IF r > 500 THEN 1
        ELSE IF q = 0 THEN -1 ELSE 1

PyRound2(n) ==
    \* round(float("n/1000"), 2), in hundredths
    LET c == n \div 10
        d == n % 10
        side == FloatSide(n)
    IN  IF d < 5 THEN c
        ELSE IF d > 5 THEN c + 1
        ELSE IF side < 0 THEN c
        ELSE IF side > 0 THEN c + 1
        ELSE IF c % 2 = 0 THEN c ELSE c + 1

PyRound2OfCents(c) ==
    \* round(x, 2) of a float that is already the double nearest to c/100
    PyRound2(c * 10)

PyRoundDiff(e, c) ==
    \* round(e - c, 2) for doubles e, c nearest to e/100 and c/100: the
    \* floating subtraction is within 1e-12 of (e - c)/100 and the nearest
    \* rounding boundary is 0.005 away, so the result is e - c hundredths
    e - c

(***************************************************************************)
(* Data of one invocation.                                                 *)
(***************************************************************************)
\* The external calls one invocation can issue.
CallNames == {"login", "historicals_day", "historicals_5minute", "google_news",
              "alpha_vantage", "youtube", "fear_and_greed", "latest_price",
              "oracle", "translate", "insert"}

NoCalls == [c \in CallNames |-> 0]

Called(c) == [calls EXCEPT ![c] = @ + 1]

\* data.get('organic_results', [])[:5]
GoogleKeep == 5

\* data["feed"][:10]
AlphaKeep == 10

\* Numbers of results a headline provider may answer with.
GoogleResultCounts == {3, 6}

AlphaFeedCounts == {3, 11}

\* A provider's answer: an error (request, status or parse), or n results.
Reply(ok, n) == [ok |-> ok, n |-> IF ok THEN n ELSE 0]

\* The headline items built from a reply of n results, at most keep of them;
\* result i is carried as its title i.
NewsItems(n, keep) == [i \in 1..(IF n < keep THEN n ELSE keep) |-> i]

\* fear_and_greed.get() turned into the dict of get_fear_and_greed_index
FgiSnapshot == [value |-> 50, description |-> "neutral"]

\* Message contents the oracle can answer with: the four typed fields, or a
\* text that is not a JSON object of that shape.
TypedContents == [decision : Decisions, percentage : Percentages,
                  reason : Reasons, expected_next_day_price : ExpectedQuotes]

Malformed == [decision |-> "BUY"]

Contents == TypedContents \cup {Malformed}

\* class TradingDecision(BaseModel): the four fields with their types; the
\* model declares no validator on values.
TradingDecision(c) == c \in TypedContents

\* GoogleTranslator(source='auto', target='ko').translate(text)
TranslateKo(text) == "ko:" \o text

\* The exceptions that can be raised under the try block of process_trading
\* ("request" is the headline fetches' own, caught where it is raised).
ExceptionKinds == {"login", "database", "historicals", "frame", "request",
                   "fear_and_greed", "oracle", "validation", "insert",
                   "unpack"}

\* A handler that misses the error of unpacking two values into five.
CaughtExceptUnpack(e) == e \in ExceptionKinds \ {"unpack"}

\* except Exception as e: every kind above derives from Exception
Caught(e) == e \in ExceptionKinds

\* An exception of kind e is raised at the current position inside the try
\* block of process_trading.
Raise(e) ==
    IF Caught(e)
    THEN pc' = "except" /\ exc' = e /\ escaped' = escaped
    ELSE pc' = "done" /\ exc' = e /\ escaped' = TRUE

\* The row with the difference taken the other way round.
LedgerRowDifferenceReversed(decision) ==
    [Stock |-> stock,
     Time |-> now,
     Decision |-> decision.Decision,
     Percentage |-> decision.Percentage,
     Reason |-> decision.Reason,
     CurrentPrice |-> decision.CurrentPrice,
     ExpectedNextDayPrice |-> decision.ExpectedNextDayPrice,
     ExpectedPriceDifference |->
         PyRoundDiff(decision.CurrentPrice, decision.ExpectedNextDayPrice)]

\* The row _record_trading_decision inserts for the dict it is given.
LedgerRow(decision) ==
    [Stock |-> stock,
     Time |-> now,
     Decision |-> decision.Decision,
     Percentage |-> decision.Percentage,
     Reason |-> decision.Reason,
     CurrentPrice |-> decision.CurrentPrice,
     ExpectedNextDayPrice |-> decision.ExpectedNextDayPrice,
     ExpectedPriceDifference |->
         PyRoundDiff(decision.ExpectedNextDayPrice, decision.CurrentPrice)]

\* The dict with the translated reason in place of the oracle's.
DecisionDictTranslated ==
    [Decision |-> Val(result).decision,
     Percentage |-> Val(result).percentage,
     Reason |-> Val(reason_kr),
     CurrentPrice |-> PyRound2OfCents(Val(current_price)),
     ExpectedNextDayPrice |-> PyRound2(Val(result).expected_next_day_price)]

\* The dict ai_stock_analysis hands to _record_trading_decision.
DecisionDict ==
    [Decision |-> Val(result).decision,
     Percentage |-> Val(result).percentage,
     Reason |-> Val(result).reason,
     CurrentPrice |-> PyRound2OfCents(Val(current_price)),
     ExpectedNextDayPrice |-> PyRound2(Val(result).expected_next_day_price)]

(***************************************************************************)
(* The pipeline: process_trading and what it calls, one action per step.   *)
(***************************************************************************)
chart_locals == <<monthly_historicals, daily_historicals>>

analysis_locals == <<replies, news, fgi, current_price, content, result, reason_kr, ret>>

indicators_idle ==
    /\ window = 0 /\ closes = <<>>
    /\ sma = <<>> /\ std = <<>> /\ avg_gain = <<>> /\ avg_loss = <<>>
    /\ rsi = <<>>

pipeline_idle ==
    /\ pc = "idle"
    /\ now = 0
    /\ stock = NoStock
    /\ ledger = <<>>
    /\ msgs = <<>>
    /\ calls = NoCalls
    /\ monthly_historicals = None
    /\ daily_historicals = None
    /\ replies = [google_news |-> None, alpha_vantage_news |-> None]
    /\ news = [google_news |-> None, alpha_vantage_news |-> None]
    /\ fgi = None
    /\ current_price = None
    /\ content = None
    /\ result = None
    /\ reason_kr = None
    /\ ret = <<>>
    /\ exc = NoException
    /\ escaped = FALSE

Init ==
    /\ pipeline_idle
    /\ indicators_idle

\* handle_mention -> process_trading(stock, say): say("Processing ...")
process_trading ==
    /\ pc = "idle"
    /\ now < MaxRuns
    /\ \E s \in Stocks : stock' = s
    /\ now' = now + 1
    /\ msgs' = <<"processing">>
    /\ calls' = NoCalls
    /\ monthly_historicals' = None
    /\ daily_historicals' = None
    /\ replies' = [google_news |-> None, alpha_vantage_news |-> None]
    /\ news' = [google_news |-> None, alpha_vantage_news |-> None]
    /\ fgi' = None
    /\ current_price' = None
    /\ content' = None
    /\ result' = None
    /\ reason_kr' = None
    /\ ret' = <<>>
    /\ exc' = NoException
    /\ pc' = "login"
    /\ UNCHANGED <<ledger, escaped, indicator_vars>>

\* AIStockAdvisorSystem.__init__: self.login = self._get_login()
get_login ==
    /\ pc = "login"
    /\ calls' = Called("login")
    /\ \E ok \in BOOLEAN :
          IF ok THEN pc' = "setup_database" /\ UNCHANGED <<exc, escaped>>
          ELSE Raise("login")
    /\ UNCHANGED <<now, stock, ledger, msgs, chart_locals, analysis_locals,
                   indicator_vars>>

\* DROP TABLE followed by CREATE TABLE.
DropAndCreateTable(rows) == <<>>

\* CREATE TABLE IF NOT EXISTS leaves an existing table and its rows alone
CreateTableIfNotExists(rows) == rows

\* AIStockAdvisorSystem.__init__: self.db_connection = self._setup_database()
setup_database ==
    /\ pc = "setup_database"
    /\ \E ok \in BOOLEAN :
          IF ok
          THEN /\ ledger' = CreateTableIfNotExists(ledger)
               /\ pc' = "historicals_day"
               /\ UNCHANGED <<exc, escaped>>
          ELSE /\ ledger' = ledger
               /\ Raise("database")
    /\ UNCHANGED <<now, stock, msgs, calls, chart_locals, analysis_locals,
                   indicator_vars>>

\* get_chart_data: the interval="day", span="3month" historicals
get_monthly_historicals ==
    /\ pc = "historicals_day"
    /\ calls' = Called("historicals_day")
    /\ \E reply \in {"bars", "malformed", "error"} :
          IF reply = "error"
          THEN Raise("historicals") /\ UNCHANGED monthly_historicals
          ELSE /\ monthly_historicals' = Some(reply)
               /\ pc' = "historicals_5minute"
               /\ UNCHANGED <<exc, escaped>>
    /\ UNCHANGED <<now, stock, ledger, msgs, daily_historicals,
                   analysis_locals, indicator_vars>>

\* The intraday fetch issued again after an error.
get_daily_historicals_retried ==
    /\ pc = "historicals_5minute"
    /\ calls' = Called("historicals_5minute")
    /\ \E reply \in {"bars", "malformed", "error"} :
          IF reply = "error"
          THEN UNCHANGED <<pc, exc, escaped, daily_historicals>>
          ELSE /\ daily_historicals' = Some(reply)
               /\ pc' = "process_df"
               /\ UNCHANGED <<exc, escaped>>
    /\ UNCHANGED <<now, stock, ledger, msgs, monthly_historicals,
                   analysis_locals, indicator_vars>>

\* get_chart_data: the interval="5minute", span="day" historicals
get_daily_historicals ==
    /\ pc = "historicals_5minute"
    /\ calls' = Called("historicals_5minute")
    /\ \E reply \in {"bars", "malformed", "error"} :
          IF reply = "error"
          THEN Raise("historicals") /\ UNCHANGED daily_historicals
          ELSE /\ daily_historicals' = Some(reply)
               /\ pc' = "process_df"
               /\ UNCHANGED <<exc, escaped>>
    /\ UNCHANGED <<now, stock, ledger, msgs, monthly_historicals,
                   analysis_locals, indicator_vars>>

\* get_chart_data: _process_df on both replies, then _add_indicators; a reply
\* without the expected columns or with unparseable numbers raises
process_df ==
    /\ pc = "process_df"
    /\ IF monthly_historicals = Some("bars") /\ daily_historicals = Some("bars")
       THEN pc' = "google_news" /\ UNCHANGED <<exc, escaped>>
       ELSE Raise("frame")
    /\ UNCHANGED <<now, stock, ledger, msgs, calls, chart_locals,
                   analysis_locals, indicator_vars>>

\* _get_news_from_google without the try/except: an error propagates.
get_news_from_google_unguarded ==
    /\ pc = "google_news"
    /\ calls' = Called("google_news")
    /\ \E ok \in BOOLEAN, n \in GoogleResultCounts :
          /\ replies' = [replies EXCEPT !.google_news = Some(Reply(ok, n))]
          /\ IF ok
             THEN /\ news' = [news EXCEPT !.google_news =
                                 Some(NewsItems(n, GoogleKeep))]
                  /\ pc' = "alpha_vantage"
                  /\ UNCHANGED <<exc, escaped>>
             ELSE /\ news' = news
                  /\ Raise("request")
    /\ UNCHANGED <<now, stock, ledger, msgs, chart_locals, fgi, current_price,
                   content, result, reason_kr, ret, indicator_vars>>

\* get_news: _get_news_from_google, try/except around the request
get_news_from_google ==
    /\ pc = "google_news"
    /\ calls' = Called("google_news")
    /\ \E ok \in BOOLEAN, n \in GoogleResultCounts :
          /\ replies' = [replies EXCEPT !.google_news = Some(Reply(ok, n))]
          /\ news' = [news EXCEPT !.google_news =
                         Some(IF ok THEN NewsItems(n, GoogleKeep) ELSE <<>>)]
    /\ pc' = "alpha_vantage"
    /\ UNCHANGED <<now, stock, ledger, msgs, chart_locals, fgi, current_price,
                   content, result, reason_kr, ret, exc, escaped,
                   indicator_vars>>

\* get_news: _get_news_from_alpha_vantage, try/except around the request
get_news_from_alpha_vantage ==
    /\ pc = "alpha_vantage"
    /\ calls' = Called("alpha_vantage")
    /\ \E ok \in BOOLEAN, n \in AlphaFeedCounts :
          /\ replies' = [replies EXCEPT !.alpha_vantage_news = Some(Reply(ok, n))]
          /\ news' = [news EXCEPT !.alpha_vantage_news =
                         Some(IF ok THEN NewsItems(n, AlphaKeep) ELSE <<>>)]
    /\ pc' = "youtube"
    /\ UNCHANGED <<now, stock, ledger, msgs, chart_locals, fgi, current_price,
                   content, result, reason_kr, ret, exc, escaped,
                   indicator_vars>>

\* get_youtube_transcript: the transcript, or the error text, is only
\* interpolated into the prompt; either way the run goes on
get_youtube_transcript ==
    /\ pc = "youtube"
    /\ calls' = Called("youtube")
    /\ pc' = "fear_and_greed"
    /\ UNCHANGED <<now, stock, ledger, msgs, chart_locals, analysis_locals,
                   exc, escaped, indicator_vars>>

\* get_fear_and_greed_index with a try/except that answers None.
get_fear_and_greed_index_guarded ==
    /\ pc = "fear_and_greed"
    /\ calls' = Called("fear_and_greed")
    /\ \E ok \in BOOLEAN : fgi' = IF ok THEN Some(FgiSnapshot) ELSE None
    /\ pc' = "latest_price"
    /\ UNCHANGED <<now, stock, ledger, msgs, chart_locals, replies, news, current_price,
                   content, result, reason_kr, ret, exc, escaped,
                   indicator_vars>>

\* get_fear_and_greed_index: fear_and_greed.get() with no try around it
get_fear_and_greed_index ==
    /\ pc = "fear_and_greed"
    /\ calls' = Called("fear_and_greed")
    /\ \E ok \in BOOLEAN :
          IF ok
          THEN fgi' = Some(FgiSnapshot) /\ pc' = "latest_price"
               /\ UNCHANGED <<exc, escaped>>
          ELSE Raise("fear_and_greed") /\ UNCHANGED fgi
    /\ UNCHANGED <<now, stock, ledger, msgs, chart_locals, replies, news, current_price,
                   content, result, reason_kr, ret, indicator_vars>>

\* get_current_price: round(float(quote[0]), 2), or None on any exception
get_current_price ==
    /\ pc = "latest_price"
    /\ calls' = Called("latest_price")
    /\ \E ok \in BOOLEAN, quote \in SpotQuotes :
          current_price' = IF ok THEN Some(PyRound2(quote)) ELSE None
    /\ pc' = "price_check"
    /\ UNCHANGED <<now, stock, ledger, msgs, chart_locals, replies, news, fgi, content,
                   result, reason_kr, ret, exc, escaped, indicator_vars>>

\* ai_stock_analysis: if current_price is None: return None, None
abort_analysis ==
    /\ pc = "price_check"
    /\ current_price = None
    /\ ret' = <<None, None>>
    /\ pc' = "unpack"
    /\ UNCHANGED <<now, stock, ledger, msgs, calls, chart_locals, replies, news, fgi,
                   current_price, content, result, reason_kr, exc, escaped,
                   indicator_vars>>

\* The oracle request without the None check before it.
chat_completions_create_unchecked ==
    /\ pc = "price_check"
    /\ calls' = Called("oracle")
    /\ \/ \E c \in Contents :
             /\ content' = Some(c)
             /\ pc' = "validate"
             /\ UNCHANGED <<exc, escaped>>
       \/ Raise("oracle") /\ UNCHANGED content
    /\ UNCHANGED <<now, stock, ledger, msgs, chart_locals, replies, news, fgi,
                   current_price, result, reason_kr, ret, indicator_vars>>

\* ai_stock_analysis: self.openai_client.chat.completions.create(...)
chat_completions_create ==
    /\ pc = "price_check"
    /\ current_price # None
    /\ calls' = Called("oracle")
    /\ \/ \E c \in Contents :
             /\ content' = Some(c)
             /\ pc' = "validate"
             /\ UNCHANGED <<exc, escaped>>
       \/ Raise("oracle") /\ UNCHANGED content
    /\ UNCHANGED <<now, stock, ledger, msgs, chart_locals, replies, news, fgi,
                   current_price, result, reason_kr, ret, indicator_vars>>

\* ai_stock_analysis: result = TradingDecision.model_validate_json(content)
model_validate_json ==
    /\ pc = "validate"
    /\ IF TradingDecision(Val(content))
       THEN result' = content /\ pc' = "translate"
            /\ UNCHANGED <<exc, escaped>>
       ELSE Raise("validation") /\ UNCHANGED result
    /\ UNCHANGED <<now, stock, ledger, msgs, calls, chart_locals, replies, news, fgi,
                   current_price, content, reason_kr, ret, indicator_vars>>

\* _translate_to_korean: the translation, or the text itself on any exception
translate_to_korean ==
    /\ pc = "translate"
    /\ calls' = Called("translate")
    /\ \E ok \in BOOLEAN :
          reason_kr' = Some(IF ok THEN TranslateKo(Val(result).reason)
                            ELSE Val(result).reason)
    /\ pc' = "record"
    /\ UNCHANGED <<now, stock, ledger, msgs, chart_locals, replies, news, fgi,
                   current_price, content, result, ret, exc, escaped,
                   indicator_vars>>

\* _record_trading_decision: INSERT and commit, then ai_stock_analysis
\* returns its five values
record_trading_decision ==
    /\ pc = "record"
    /\ calls' = Called("insert")
    /\ \E ok \in BOOLEAN :
          IF ok
          THEN /\ ledger' = Append(ledger, LedgerRow(DecisionDict))
               /\ ret' = <<result, reason_kr, news, fgi, current_price>>
               /\ pc' = "unpack"
               /\ UNCHANGED <<exc, escaped>>
          ELSE /\ Raise("insert")
               /\ UNCHANGED <<ledger, ret>>
    /\ UNCHANGED <<now, stock, msgs, chart_locals, replies, news, fgi, current_price,
                   content, result, reason_kr, indicator_vars>>

\* process_trading: unpack the five values, format and say(response)
report ==
    /\ pc = "unpack"
    /\ IF Len(ret) = 5
       THEN /\ msgs' = Append(msgs, "report")
            /\ pc' = "done"
            /\ UNCHANGED <<exc, escaped>>
       ELSE /\ msgs' = msgs
            /\ Raise("unpack")
    /\ UNCHANGED <<now, stock, ledger, calls, chart_locals, analysis_locals,
                   indicator_vars>>

\* process_trading: except Exception: say("An error occurred ...")
handle_exception ==
    /\ pc = "except"
    /\ msgs' = Append(msgs, "error")
    /\ pc' = "done"
    /\ UNCHANGED <<now, stock, ledger, calls, chart_locals, analysis_locals,
                   exc, escaped, indicator_vars>>

\* process_trading returns; the handler waits for the next mention
finish ==
    /\ pc = "done"
    /\ pc' = "idle"
    /\ UNCHANGED <<now, stock, ledger, msgs, calls, chart_locals,
                   analysis_locals, exc, escaped, indicator_vars>>

Next ==
    \/ process_trading
    \/ get_login
    \/ setup_database
    \/ get_monthly_historicals
    \/ get_daily_historicals
    \/ process_df
    \/ get_news_from_google
    \/ get_news_from_alpha_vantage
    \/ get_youtube_transcript
    \/ get_fear_and_greed_index
    \/ get_current_price
    \/ abort_analysis
    \/ chat_completions_create
    \/ model_validate_json
    \/ translate_to_korean
    \/ record_trading_decision
    \/ report
    \/ handle_exception
    \/ finish

Spec == Init /\ [][Next]_vars

(***************************************************************************)
(* The Indicator Engine: float columns of a DataFrame.                     *)
(*                                                                         *)
(* A float is NaN, an infinity, or an exact fraction n/d with d > 0; the   *)
(* closes are whole numbers, so every sum and quotient below is exact.     *)
(* The sign of a zero is not tracked: an infinity obtained by dividing by  *)
(* a zero average stands for either sign, and the code's only use of it,   *)
(* 100 - 100 / (1 + rs), yields 100 for both.                              *)
(***************************************************************************)
NaN == [k |-> "nan", n |-> 0, d |-> 1]

Inf == [k |-> "inf", n |-> 0, d |-> 1]

Num(n, d) == [k |-> "num", n |-> n, d |-> d]

IsNaN(x) == x.k = "nan"

\* a / b on floats: x / 0 is an infinity, 0 / 0 and anything with NaN is NaN
FDiv(a, b) ==
    IF IsNaN(a) \/ IsNaN(b) THEN NaN
    ELSE IF a.k = "inf" THEN (IF b.k = "inf" THEN NaN ELSE Inf)
    ELSE IF b.k = "inf" THEN Num(0, 1)
    ELSE IF b.n = 0 THEN (IF a.n = 0 THEN NaN ELSE Inf)
    ELSE IF b.n > 0 THEN Num(a.n * b.d, a.d * b.n)
    ELSE Num(-(a.n * b.d), a.d * (-b.n))

\* a + b on floats, b finite
FAdd(a, b) ==
    IF IsNaN(a) \/ IsNaN(b) THEN NaN
    ELSE IF a.k = "inf" THEN Inf
    ELSE Num(a.n * b.d + b.n * a.d, a.d * b.d)

\* a - b on floats, a finite
FSub(a, b) ==
    IF IsNaN(a) \/ IsNaN(b) THEN NaN
    ELSE IF b.k = "inf" THEN Inf
    ELSE Num(a.n * b.d - b.n * a.d, a.d * b.d)

\* -a on floats
FNeg(a) == IF a.k = "num" THEN Num(-a.n, a.d) ELSE a

\* Series.diff(): the first row has no predecessor
Diff(s) == [i \in 1..Len(s) |-> IF i = 1 THEN NaN ELSE Num(s[i] - s[i - 1], 1)]

\* delta.where(delta > 0, 0): a comparison with NaN is False
WherePositive(s) ==
    [i \in 1..Len(s) |-> IF s[i].k = "num" /\ s[i].n > 0 THEN s[i] ELSE Num(0, 1)]

\* delta.where(delta < 0, 0)
WhereNegative(s) ==
    [i \in 1..Len(s) |-> IF s[i].k = "num" /\ s[i].n < 0 THEN s[i] ELSE Num(0, 1)]

RECURSIVE SumNum(_, _, _)
SumNum(s, lo, hi) ==
    \* the sum of the whole-number rows lo..hi of s
    IF lo > hi THEN 0 ELSE s[hi].n + SumNum(s, lo, hi - 1)

\* Series.rolling(window=w).mean(): NaN until w rows are in the window, and
\* wherever a row of the window is NaN
RollingMean(s, w) ==
    [i \in 1..Len(s) |->
        IF i < w \/ \E j \in (i - w + 1)..i : IsNaN(s[j])
        THEN NaN
        ELSE Num(SumNum(s, i - w + 1, i), w)]

\* df['Close'] as the float column it is
Floats(c) == [i \in 1..Len(c) |-> Num(c[i], 1)]

RECURSIVE SumSquares(_, _, _)
SumSquares(s, lo, hi) ==
    \* the sum of the squares of the whole-number rows lo..hi of s
    IF lo > hi THEN 0 ELSE s[hi].n * s[hi].n + SumSquares(s, lo, hi - 1)

\* Series.rolling(window=w).std() squared: the sample variance (ddof = 1) of
\* the window, NaN until w rows are in the window, wherever a row of the
\* window is NaN, and for a window of one row
RollingVar(s, w) ==
    [i \in 1..Len(s) |->
        IF i < w \/ w < 2 \/ \E j \in (i - w + 1)..i : IsNaN(s[j])
        THEN NaN
        ELSE Num(w * SumSquares(s, i - w + 1, i)
                   - SumNum(s, i - w + 1, i) * SumNum(s, i - w + 1, i),
                 w * (w - 1))]

\* _calculate_bollinger_bands: df['SMA'] = df['Close'].rolling(window).mean();
\* _calculate_moving_averages computes its MA_10, MA_20, MA_60 the same way
CalculateSMA(c, w) == RollingMean(Floats(c), w)

\* _calculate_bollinger_bands: df['STD'] = df['Close'].rolling(window).std()
CalculateSTD(c, w) == RollingVar(Floats(c), w)

\* the default of the window parameter of _calculate_rsi
RSIWindow == 14

\* _calculate_rsi: gain = (delta.where(delta > 0, 0)).rolling(window).mean()
AvgGain(c, w) == RollingMean(WherePositive(Diff(c)), w)

\* _calculate_rsi: loss = (-delta.where(delta < 0, 0)).rolling(window).mean()
AvgLoss(c, w) ==
    LET kept == WhereNegative(Diff(c))
    IN  RollingMean([i \in 1..Len(c) |-> FNeg(kept[i])], w)

\* _calculate_rsi: rs = gain / loss; df['RSI'] = 100 - (100 / (1 + rs))
CalculateRSI(c, w) ==
    LET gain == AvgGain(c, w)
        loss == AvgLoss(c, w)
    IN  [i \in 1..Len(c) |->
            FSub(Num(100, 1),
                 FDiv(Num(100, 1), FAdd(FDiv(gain[i], loss[i]), Num(1, 1))))]

(***************************************************************************)
(* Bounds of the indicator inputs.                                         *)
(***************************************************************************)
\* A short window, next to the code's own.
SmallWindow == 2

\* Rows a table has beyond the window.
ExtraBars == 1

Windows == {SmallWindow, RSIWindow}

\* Close prices of the tables tried: three levels under a short window, two
\* under the long one.
CloseLevels(w) == IF w < RSIWindow THEN {10, 11, 12} ELSE {10, 12}

CloseSeries(w) ==
    UNION {[1..n -> CloseLevels(w)] : n \in 1..(w + ExtraBars)}

InitIndicators ==
    /\ pipeline_idle
    /\ window \in Windows
    /\ closes \in CloseSeries(window)
    /\ sma = <<>> /\ std = <<>> /\ avg_gain = <<>> /\ avg_loss = <<>>
    /\ rsi = <<>>

\* _add_indicators: df = self._calculate_bollinger_bands(df)
calculate_bollinger_bands ==
    /\ sma = <<>>
    /\ sma' = CalculateSMA(closes, window)
    /\ std' = CalculateSTD(closes, window)
    /\ UNCHANGED <<window, closes, avg_gain, avg_loss, rsi, pipeline_vars>>

\* _add_indicators: df = self._calculate_rsi(df)
calculate_rsi ==
    /\ sma # <<>>
    /\ rsi = <<>>
    /\ avg_gain' = AvgGain(closes, window)
    /\ avg_loss' = AvgLoss(closes, window)
    /\ rsi' = CalculateRSI(closes, window)
    /\ UNCHANGED <<window, closes, sma, std, pipeline_vars>>

NextIndicators == calculate_bollinger_bands \/ calculate_rsi

SpecIndicators == InitIndicators /\ [][NextIndicators]_vars

(***************************************************************************)
(* Properties.                                                             *)
(***************************************************************************)
\* The rows an invocation wrote: those stamped with its time.
RowsOfRun(t) == {i \in 1..Len(ledger) : ledger[i].Time = t}

\* The invocation is over (process_trading has said its last).
Finished == pc = "done" \/ (pc = "idle" /\ now > 0)

\* The spot-price fetch of this invocation was issued and failed.
PriceFetchFailed == calls["latest_price"] = 1 /\ current_price = None

\* C1: whenever get_current_price fails, ai_stock_analysis returns
\* (None, None) without calling the oracle and without a ledger row, whatever
\* the fetches before it answered.
C1_PriceFailureAborts ==
    PriceFetchFailed =>
        /\ calls["oracle"] = 0
        /\ calls["insert"] = 0
        /\ RowsOfRun(now) = {}
        /\ content = None /\ result = None
        /\ pc # "price_check" => ret = <<None, None>>
        /\ pc \in {"price_check", "unpack", "except", "done", "idle"}

C1_Witness ==
    /\ PriceFetchFailed
    /\ pc = "done"
    /\ news.google_news = Some(<<>>)
    /\ Len(Val(news.alpha_vantage_news)) = AlphaKeep

\* The percentage the prompt asks for: 0 with HOLD, 1..100 with BUY or SELL.
PercentageValid(decision, percentage) ==
    IF decision = "HOLD" THEN percentage = 0 ELSE percentage \in 1..100

\* C2: a response whose percentage is not valid for its decision is rejected
\* by validation and never reaches the ledger: every TradingDecision and
\* every ledger row has percentage 0 with HOLD and 1..100 otherwise.
C2_InvalidPercentageRejected ==
    /\ result # None =>
          PercentageValid(Val(result).decision, Val(result).percentage)
    /\ \A i \in 1..Len(ledger) :
          PercentageValid(ledger[i].Decision, ledger[i].Percentage)

\* The invocation's run of ai_stock_analysis returned its five values.
RunSucceeded == Len(ret) = 5

\* C3, the step: the ledger only ever changes by _record_trading_decision
\* appending one row, whose decision fields are those of the response that
\* passed validation in this run; every other step, the CREATE TABLE IF NOT
\* EXISTS of each construction included, leaves every row as it is.
C3_AppendStep ==
    \/ ledger' = ledger
    \/ /\ pc = "record"
       /\ content # None /\ TradingDecision(Val(content))
       /\ Len(ledger') = Len(ledger) + 1
       /\ SubSeq(ledger', 1, Len(ledger)) = ledger
       /\ ledger'[Len(ledger')].Stock = stock
       /\ ledger'[Len(ledger')].Time = now
       /\ ledger'[Len(ledger')].Decision = Val(content).decision
       /\ ledger'[Len(ledger')].Percentage = Val(content).percentage
       /\ ledger'[Len(ledger')].Reason = Val(content).reason
       /\ Len(ret') = 5

\* C3, the state: a run that succeeded has exactly one row, the last one; a
\* run that failed or has not finished has none; rows are in time order.
C3_OneRowPerSuccess ==
    /\ RunSucceeded => RowsOfRun(now) = {Len(ledger)} /\ Len(ledger) > 0
    /\ ~RunSucceeded => RowsOfRun(now) = {}
    /\ \A i \in 1..Len(ledger) : \A j \in 1..Len(ledger) :
          i < j => ledger[i].Time < ledger[j].Time

\* C3: the ledger is exactly the append-only log of the successful runs.
C3_LedgerIsLogOfSuccessfulRuns ==
    [][C3_AppendStep]_vars /\ []C3_OneRowPerSuccess

C3_Witness ==
    /\ now = 2
    /\ pc = "done"
    /\ exc = "validation"
    /\ Len(ledger) = 1
    /\ ledger[1].Time = 1

\* Rounding a decimal with three places to two, halves up.
RoundHalfUp2(n) == (n + 5) \div 10

\* C4 as stated: every row has ExpectedPriceDifference = round(Expected -
\* Current, 2), the stored prices being the spot price and the oracle's price
\* rounded to two decimals, 102.345 becoming 102.35.
C4_RowsRoundedHalfUp ==
    /\ \A i \in 1..Len(ledger) :
          ledger[i].ExpectedPriceDifference =
              ledger[i].ExpectedNextDayPrice - ledger[i].CurrentPrice
    /\ RunSucceeded =>
          /\ ledger[Len(ledger)].CurrentPrice = Val(current_price)
          /\ ledger[Len(ledger)].ExpectedNextDayPrice =
                 RoundHalfUp2(Val(content).expected_next_day_price)

\* The distance between a stored price (hundredths) and a given one
\* (thousandths), in thousandths.
Distance(cents, milli) ==
    IF 10 * cents >= milli THEN 10 * cents - milli ELSE milli - 10 * cents

\* C4 amended: every row has ExpectedPriceDifference = round(Expected -
\* Current, 2); the stored prices are the spot price and the oracle's price
\* rounded to a nearest two-decimal value, where a price written with a
\* final 5 goes to the side its binary double lies on: 100.00 and 102.345
\* are stored as 100.00, 102.34 and 2.34.
C4_RowsRoundedToNearest ==
    /\ \A i \in 1..Len(ledger) :
          ledger[i].ExpectedPriceDifference =
              ledger[i].ExpectedNextDayPrice - ledger[i].CurrentPrice
    /\ RunSucceeded =>
          /\ ledger[Len(ledger)].CurrentPrice = Val(current_price)
          /\ Distance(ledger[Len(ledger)].ExpectedNextDayPrice,
                      Val(content).expected_next_day_price) <= 5
          /\ (/\ Val(current_price) = 10000
              /\ Val(content).expected_next_day_price = 102345)
             => /\ ledger[Len(ledger)].CurrentPrice = 10000
                /\ ledger[Len(ledger)].ExpectedNextDayPrice = 10234
                /\ ledger[Len(ledger)].ExpectedPriceDifference = 234

C4_Witness ==
    /\ RunSucceeded
    /\ Val(current_price) = 10000
    /\ Val(content).expected_next_day_price = 102345
    /\ ledger[Len(ledger)].ExpectedPriceDifference = 234

\* What a source contributes for its reply: nothing for an error, else the
\* first results, in order, up to the source's limit.
Contributes(items, reply, keep) ==
    IF ~reply.ok THEN items = <<>>
    ELSE /\ Len(items) = (IF reply.n < keep THEN reply.n ELSE keep)
         /\ \A i \in 1..Len(items) : items[i] = i

\* C5: for every combination of success and failure of the two headline
\* sources, a failing source contributes an empty list, the other source's
\* items are what its own reply gives, no error is raised, and the run goes
\* on: once the later fetches have succeeded it is at, or past, the oracle
\* call.
C5_HeadlineSourcesIsolated ==
    /\ calls["google_news"] = 1 =>
          /\ news.google_news # None
          /\ Contributes(Val(news.google_news), Val(replies.google_news),
                         GoogleKeep)
          /\ pc = "alpha_vantage" \/ calls["alpha_vantage"] = 1
    /\ calls["alpha_vantage"] = 1 =>
          /\ news.alpha_vantage_news # None
          /\ Contributes(Val(news.alpha_vantage_news),
                         Val(replies.alpha_vantage_news), AlphaKeep)
          /\ pc = "youtube" \/ calls["youtube"] = 1
    /\ (calls["alpha_vantage"] = 1 /\ fgi # None /\ current_price # None) =>
          pc = "price_check" \/ calls["oracle"] = 1

C5_Witness ==
    /\ calls["oracle"] = 1
    /\ ~Val(replies.google_news).ok
    /\ news.google_news = Some(<<>>)
    /\ Val(replies.alpha_vantage_news).ok
    /\ news.alpha_vantage_news = Some(<<1, 2, 3>>)

\* The sentiment fetch of this invocation was issued and failed.
SentimentFetchFailed == calls["fear_and_greed"] = 1 /\ fgi = None

\* C6: a failure of get_fear_and_greed_index propagates out of
\* ai_stock_analysis: the run returns nothing, the spot price is not fetched,
\* the oracle is not called and no ledger row is written.
C6_SentimentFailureIsFatal ==
    SentimentFetchFailed =>
        /\ exc = "fear_and_greed"
        /\ ret = <<>>
        /\ calls["latest_price"] = 0
        /\ calls["oracle"] = 0
        /\ calls["insert"] = 0
        /\ RowsOfRun(now) = {}
        /\ pc \in {"except", "done", "idle"}

C6_Witness ==
    /\ SentimentFetchFailed
    /\ pc = "done"
    /\ news.google_news = Some(<<>>)
    /\ msgs = <<"processing", "error">>

\* The external calls C7 is about.
OneShotCalls == {"historicals_day", "historicals_5minute", "google_news",
                 "alpha_vantage", "fear_and_greed", "latest_price", "oracle",
                 "insert"}

\* C7, the state: each call is issued at most once in a run, and exactly
\* once in a run that wrote its ledger row.
C7_AtMostOnce ==
    /\ \A c \in OneShotCalls : calls[c] <= 1
    /\ RowsOfRun(now) # {} => \A c \in OneShotCalls : calls[c] = 1

\* C7, the step: after the ledger insert no call is issued in the same run.
C7_InsertIsLast ==
    (calls["insert"] = 1 /\ now' = now) => calls' = calls

\* C7: within one run no external call is retried, and the ledger write is
\* the last call.
C7_NoRetries == []C7_AtMostOnce /\ [][C7_InsertIsLast]_vars

C7_Witness ==
    /\ RowsOfRun(now) # {}
    /\ pc = "done"
    /\ \A c \in OneShotCalls : calls[c] = 1

\* C8: no exception leaves process_trading, and after "Processing" exactly
\* one more message is sent: the report only if this run wrote a ledger row,
\* the error message otherwise.
C8_OneMessageAfterProcessing ==
    /\ ~escaped
    /\ Len(msgs) <= 2
    /\ Finished =>
          /\ Len(msgs) = 2
          /\ msgs[1] = "processing"
          /\ msgs[2] \in {"report", "error"}
          /\ msgs[2] = "report" => RowsOfRun(now) # {}
          /\ RowsOfRun(now) = {} => msgs[2] = "error"

C8_Witness ==
    /\ Finished
    /\ PriceFetchFailed
    /\ ret = <<None, None>>
    /\ exc = "unpack"
    /\ msgs = <<"processing", "error">>

\* C9: _translate_to_korean returns the translation or, when it fails, the
\* reason as it is; it raises nothing and the run goes on to the ledger
\* write; the row written carries the oracle's own reason and the run's
\* prices whichever way the translation went.
C9_TranslationIsSoftFail ==
    /\ calls["translate"] = 1 =>
          /\ reason_kr \in {Some(Val(content).reason),
                            Some("ko:" \o Val(content).reason)}
          /\ pc = "record" \/ calls["insert"] = 1
    /\ RunSucceeded =>
          /\ ledger[Len(ledger)].Decision = Val(content).decision
          /\ ledger[Len(ledger)].Percentage = Val(content).percentage
          /\ ledger[Len(ledger)].Reason = Val(content).reason
          /\ ledger[Len(ledger)].CurrentPrice = Val(current_price)
          /\ Distance(ledger[Len(ledger)].ExpectedNextDayPrice,
                      Val(content).expected_next_day_price) <= 5

C9_Witness ==
    /\ RunSucceeded
    /\ reason_kr = Some(Val(content).reason)
    /\ ledger[Len(ledger)].Reason = Val(content).reason

\* A float that is a number between 0 and 100.
InZeroToHundred(x) == x.k = "num" /\ 0 <= x.n /\ x.n <= 100 * x.d

\* C10: on every row where the 14-period average gain and average loss are
\* both defined, the RSI is a defined number in [0, 100], also when the
\* average loss is 0.
C10_RSIDefinedAndBounded ==
    (window = RSIWindow /\ rsi # <<>>) =>
        \A i \in 1..Len(closes) :
            (~IsNaN(AvgGain(closes, window)[i]) /\ ~IsNaN(AvgLoss(closes, window)[i]))
                => InZeroToHundred(rsi[i])

\* A float equal to the fraction n/d.
Equals(x, n, d) == x.k = "num" /\ x.n * d = n * x.d

\* C11, the rolling columns: a rolling mean or deviation with window w is
\* undefined on exactly the first w - 1 rows; closes [10, 12, 11] with w = 2
\* give the means [undefined, 11.0, 11.5].
C11_RollingUndefinedPrefix ==
    sma # <<>> =>
        /\ Len(sma) = Len(closes) /\ Len(std) = Len(closes)
        /\ \A i \in 1..Len(closes) :
              /\ IsNaN(sma[i]) <=> i < window
              /\ IsNaN(std[i]) <=> i < window
        /\ (closes = <<10, 12, 11>> /\ window = 2) =>
              /\ IsNaN(sma[1])
              /\ Equals(sma[2], 11, 1)
              /\ Equals(sma[3], 23, 2)

\* The rows whose window of w deltas includes the first, undefined, delta.
RowsOverFirstDelta(w) == {i \in 1..Len(closes) : i - w + 1 <= 1}

\* C11: a missing rolling-window input is never treated as 0: the rolling
\* columns are undefined on exactly the first w - 1 rows, and the RSI average
\* gain and average loss are undefined on every row whose 14-delta window
\* includes the first, undefined, delta.
C11_MissingInputNeverZero ==
    /\ C11_RollingUndefinedPrefix
    /\ (rsi # <<>> /\ window = RSIWindow) =>
          \A i \in RowsOverFirstDelta(window) :
              IsNaN(avg_gain[i]) /\ IsNaN(avg_loss[i])

====
